---- MODULE Spec2Model ----
(***************************************************************************)
(* State-machine model of the gemini-api session wrapper                   *)
(* (src/src/model/mod.rs, src/src/model/blocking.rs, src/src/utils/image.rs)*)
(*                                                                         *)
(* One session (struct Gemini) is modelled.  Every public method is one    *)
(* action that models the whole method body.  The remote side (the HTTP    *)
(* exchange with the generation endpoint, the image source) is an input    *)
(* of the action, drawn from small sets.  Option<T> is modelled as a       *)
(* sequence of length 0 (None) or 1 (Some).                                *)
(***************************************************************************)
EXTENDS Integers, Sequences, FiniteSets, TLC

VARIABLES
    client,   \* which implementation the session is: "async" (model::Gemini) or "blocking" (model::blocking::Gemini)
    self,     \* the fields of struct Gemini
    last,     \* observation of the most recent call: its inputs, the requests it issued, its result
    started,  \* history observer: what happened since the session became accumulating with an empty history
    given,    \* configuration observer: the options and the instruction the caller gave last
    calc      \* observation of the latest call of a function outside the session (catalog, schema, get_models)

vars == <<client, self, last, started, given, calc>>

-----------------------------------------------------------------------------
(* Bounds and input sets *)

\* sends are enabled while the stored history holds at most MaxHistory - 2 turns
MaxHistory == 4

Clients == {"async", "blocking"}
Keys == {"k1"}
Messages == {"m1", "m2"}
Replies == {"r1", "r2"}
RemoteMessages == {"API key not valid", "Unexpected response format"}
Instructions == {"sys1"}

-----------------------------------------------------------------------------
(* Option<T> *)

None == <<>>
Some(x) == <<x>>

-----------------------------------------------------------------------------
(* body::Content, body::Part, body::Role *)

Text(s) == [tag |-> "Text", text |-> s]
InlineData(mime_type, data) == [tag |-> "InlineData", mime_type |-> mime_type, data |-> data]
Content(parts, role) == [parts |-> parts, role |-> role]

UserText(s) == Content(<<Text(s)>>, Some("user"))
ModelText(s) == Content(<<Text(s)>>, Some("model"))

-----------------------------------------------------------------------------
(* param::LanguageModel *)

Gemini1_0Pro == [variant |-> "Gemini1_0Pro"]
Gemini1_5Pro == [variant |-> "Gemini1_5Pro"]
Gemini1_5Flash == [variant |-> "Gemini1_5Flash"]
Gemini2_0FlashExp == [variant |-> "Gemini2_0FlashExp"]
Custom(s) == [variant |-> "Custom", name |-> s]

LanguageModelDefault == Gemini2_0FlashExp

Display(m) ==
    CASE m.variant = "Gemini1_0Pro" -> "models/gemini-1.0-pro"
      [] m.variant = "Gemini1_5Pro" -> "models/gemini-1.5-pro"
      [] m.variant = "Gemini1_5Flash" -> "models/gemini-1.5-flash"
      [] m.variant = "Gemini2_0FlashExp" -> "models/gemini-2.0-flash-exp"
      [] m.variant = "Custom" -> m.name

\* the models a session is created with
Models == {Gemini1_5Flash}

-----------------------------------------------------------------------------
(* body::request::GenerationConfig, as far as the session is concerned *)

GenerationConfigDefault ==
    [response_mime_type |-> "text/plain", max_output_tokens |-> 8192,
     temperature |-> "1.0", top_p |-> "0.95", top_k |-> 64]

OptionValues ==
    {GenerationConfigDefault, [GenerationConfigDefault EXCEPT !.max_output_tokens = 100]}

-----------------------------------------------------------------------------
(* Construction *)

GEMINI_API_URL == "https://generativelanguage.googleapis.com/v1beta/"

\* a URL built for the default model, whatever model was given
EndpointUrl_DefaultModel(model) ==
    GEMINI_API_URL \o Display(LanguageModelDefault) \o ":generateContent"

\* format!("{}{}:generateContent", GEMINI_API_URL, model)
EndpointUrl(model) == GEMINI_API_URL \o Display(model) \o ":generateContent"

\* #[derive(Default)] of struct Gemini
GeminiDefault ==
    [key |-> "", model |-> LanguageModelDefault, contents |-> <<>>,
     options |-> GenerationConfigDefault, system_instruction |-> None,
     conversation |-> FALSE, url |-> ""]

new_default_model(key) ==
    [GeminiDefault EXCEPT !.key = key, !.contents = <<>>,
                          !.url = EndpointUrl(LanguageModelDefault)]

new(key, model) ==
    [GeminiDefault EXCEPT !.key = key, !.model = model, !.contents = <<>>,
                          !.url = EndpointUrl(model)]

rebuild(key, model, contents, options) ==
    [GeminiDefault EXCEPT !.key = key, !.model = model, !.contents = contents,
                          !.options = options, !.url = EndpointUrl(model),
                          !.conversation = TRUE]

-----------------------------------------------------------------------------
(* Results of a call: anyhow::Result<(String, GenerateContentResponse)>, or a panic *)

Ok(text, response) == [kind |-> "Ok", text |-> text, response |-> response]
\* type: "reqwest", "serde_json", "io" (errors converted by `?`) or "message" (bail!)
Err(type, message) == [kind |-> "Err", type |-> type, message |-> message]
Panic(message) == [kind |-> "Panic", message |-> message]

UnexpectedResponseFormat == "Unexpected response format"

-----------------------------------------------------------------------------
(* body::response: the enums and their wire tokens (derive Serialize, Deserialize) *)

Decoded(value) == [kind |-> "Ok", value |-> value]
UnknownVariant == Err("serde_json", "unknown variant")

FinishReasonVariants ==
    {"FinishReasonUnspecified", "Stop", "MaxTokens", "Safety", "Recitation", "Language",
     "Other", "Blocklist", "ProhibitedContent", "Spii", "MalformedFunctionCall"}

FinishReasonToken(v) ==
    CASE v = "FinishReasonUnspecified" -> "FINISH_REASON_UNSPECIFIED"
      [] v = "Stop" -> "STOP"
      [] v = "MaxTokens" -> "MAX_TOKENS"
      [] v = "Safety" -> "SAFETY"
      [] v = "Recitation" -> "RECITATION"
      [] v = "Language" -> "LANGUAGE"
      [] v = "Other" -> "OTHER"
      [] v = "Blocklist" -> "BLOCKLIST"
      [] v = "ProhibitedContent" -> "PROHIBITED_CONTENT"
      [] v = "Spii" -> "SPII"
      [] v = "MalformedFunctionCall" -> "MALFORMED_FUNCTION_CALL"

\* a decoder that maps a token outside the vocabulary to the default variant
FinishReasonFromToken_Default(token) ==
    IF token \in {FinishReasonToken(v) : v \in FinishReasonVariants}
    THEN Decoded(CHOOSE v \in FinishReasonVariants : FinishReasonToken(v) = token)
    ELSE Decoded("FinishReasonUnspecified")

FinishReasonFromToken(token) ==
    CASE token = "FINISH_REASON_UNSPECIFIED" -> Decoded("FinishReasonUnspecified")
      [] token = "STOP" -> Decoded("Stop")
      [] token = "MAX_TOKENS" -> Decoded("MaxTokens")
      [] token = "SAFETY" -> Decoded("Safety")
      [] token = "RECITATION" -> Decoded("Recitation")
      [] token = "LANGUAGE" -> Decoded("Language")
      [] token = "OTHER" -> Decoded("Other")
      [] token = "BLOCKLIST" -> Decoded("Blocklist")
      [] token = "PROHIBITED_CONTENT" -> Decoded("ProhibitedContent")
      [] token = "SPII" -> Decoded("Spii")
      [] token = "MALFORMED_FUNCTION_CALL" -> Decoded("MalformedFunctionCall")
      [] OTHER -> UnknownVariant

HarmProbabilityVariants ==
    {"HarmProbabilityUnspecified", "Negligible", "Low", "Medium", "High"}

\* a token table in which two variants share a token
HarmProbabilityToken_Merged(v) ==
    CASE v = "HarmProbabilityUnspecified" -> "HARM_PROBABILITY_UNSPECIFIED"
      [] v = "Negligible" -> "LOW"
      [] v = "Low" -> "LOW"
      [] v = "Medium" -> "MEDIUM"
      [] v = "High" -> "HIGH"

HarmProbabilityToken(v) ==
    CASE v = "HarmProbabilityUnspecified" -> "HARM_PROBABILITY_UNSPECIFIED"
      [] v = "Negligible" -> "NEGLIGIBLE"
      [] v = "Low" -> "LOW"
      [] v = "Medium" -> "MEDIUM"
      [] v = "High" -> "HIGH"

HarmProbabilityFromToken(token) ==
    CASE token = "HARM_PROBABILITY_UNSPECIFIED" -> Decoded("HarmProbabilityUnspecified")
      [] token = "NEGLIGIBLE" -> Decoded("Negligible")
      [] token = "LOW" -> Decoded("Low")
      [] token = "MEDIUM" -> Decoded("Medium")
      [] token = "HIGH" -> Decoded("High")
      [] OTHER -> UnknownVariant

BlockReasonVariants ==
    {"BlockReasonUnspecified", "Safety", "Other", "Blocklist", "ProhibitedContent"}

BlockReasonToken(v) ==
    CASE v = "BlockReasonUnspecified" -> "BLOCK_REASON_UNSPECIFIED"
      [] v = "Safety" -> "SAFETY"
      [] v = "Other" -> "OTHER"
      [] v = "Blocklist" -> "BLOCKLIST"
      [] v = "ProhibitedContent" -> "PROHIBITED_CONTENT"

BlockReasonFromToken(token) ==
    CASE token = "BLOCK_REASON_UNSPECIFIED" -> Decoded("BlockReasonUnspecified")
      [] token = "SAFETY" -> Decoded("Safety")
      [] token = "OTHER" -> Decoded("Other")
      [] token = "BLOCKLIST" -> Decoded("Blocklist")
      [] token = "PROHIBITED_CONTENT" -> Decoded("ProhibitedContent")
      [] OTHER -> UnknownVariant

\* a value of one of the three enums
EnumValues ==
    {[enum |-> "FinishReason", variant |-> v] : v \in FinishReasonVariants}
    \cup {[enum |-> "HarmProbability", variant |-> v] : v \in HarmProbabilityVariants}
    \cup {[enum |-> "BlockReason", variant |-> v] : v \in BlockReasonVariants}

\* serde_json::to_string of an enum value: its token
encode(x) ==
    CASE x.enum = "FinishReason" -> FinishReasonToken(x.variant)
      [] x.enum = "HarmProbability" -> HarmProbabilityToken(x.variant)
      [] x.enum = "BlockReason" -> BlockReasonToken(x.variant)

\* serde_json::from_str of a token as the given enum
decode(enum, token) ==
    CASE enum = "FinishReason" -> FinishReasonFromToken(token)
      [] enum = "HarmProbability" -> HarmProbabilityFromToken(token)
      [] enum = "BlockReason" -> BlockReasonFromToken(token)

-----------------------------------------------------------------------------
(* The remote side of the POST to the generation endpoint *)

\* a response body as JSON text: which of the two envelopes it holds
Json(error, response) == [error |-> error, response |-> response]
ErrorEnvelope(message) == [code |-> 400, message |-> message]
ResponseEnvelope(candidates) == [candidates |-> candidates]
\* a candidate on the wire: its content and, if present, its finishReason token
Candidate(parts) == [content |-> Content(parts, Some("model")), finish_reason |-> None]
\* a candidate with a finishReason token
Finished(candidate, token) == [candidate EXCEPT !.finish_reason = Some(token)]

PartPool == {Text(r) : r \in Replies} \cup {InlineData("image/png", "AAAA")}
PartLists == {<<>>} \cup {<<p>> : p \in PartPool} \cup {<<p, Text("r2")>> : p \in PartPool}
CandidateLists ==
    {<<>>} \cup {<<Candidate(ps)>> : ps \in PartLists}
           \cup {<<Candidate(<<p>>), Finished(Candidate(<<Text("r2")>>), "STOP")>> : p \in PartPool}

\* the last element: a response whose finishReason token is outside the vocabulary
Jsons ==
    {Json(None, None)}
    \cup {Json(Some(ErrorEnvelope(m)), None) : m \in RemoteMessages}
    \cup {Json(None, Some(ResponseEnvelope(cs))) : cs \in CandidateLists}
    \cup {Json(Some(ErrorEnvelope("API key not valid")),
               Some(ResponseEnvelope(<<Candidate(<<Text("r1")>>)>>)))}
    \cup {Json(None, Some(ResponseEnvelope(<<Finished(Candidate(<<Text("r1")>>), "IMAGE_SAFETY")>>)))}

Bodies == {[readable |-> FALSE]} \cup {[readable |-> TRUE, json |-> j] : j \in Jsons}

\* the bodies that come with a non-success status: of the response envelopes, one
FailureBodies ==
    {b \in Bodies : b.readable =>
        (b.json.response # None => b.json.response[1].candidates = <<Candidate(<<Text("r1")>>)>>)}

\* what the POST yields: no response at all, or a status and a body
Outcomes ==
    {[kind |-> "transport_error"]}
    \cup {[kind |-> "response", success |-> TRUE, body |-> b] : b \in Bodies}
    \cup {[kind |-> "response", success |-> FALSE, body |-> b] : b \in FailureBodies}

\* the outcome recorded for a call that issued no POST
NoOutcome == [kind |-> "none"]

\* Option<FinishReason> of a candidate, deserialized
DecodeFinishReason(candidate) ==
    IF candidate.finish_reason = None THEN Decoded(None)
    ELSE LET r == FinishReasonFromToken(candidate.finish_reason[1])
         IN  IF r.kind = "Ok" THEN Decoded(Some(r.value)) ELSE r

\* serde_json::from_str::<GenerateContentResponse>: the envelope with every token
\* deserialized to its variant, or the error of the first field that does not parse
ParseResponse(json) ==
    IF json.response = None THEN Err("serde_json", "")
    ELSE LET cs == json.response[1].candidates
         IN  IF \E i \in 1..Len(cs) : DecodeFinishReason(cs[i]).kind = "Err"
             THEN UnknownVariant
             ELSE IF cs = <<>> THEN Ok("", json.response[1])
             ELSE Ok("", [candidates |->
                            [i \in 1..Len(cs) |->
                                [cs[i] EXCEPT !.finish_reason = DecodeFinishReason(cs[i]).value]]])

\* serde_json::from_str::<GenerateContentResponseError>
ParseError(json) ==
    IF json.error # None THEN Ok("", json.error[1]) ELSE Err("serde_json", "")

-----------------------------------------------------------------------------
(* The request *)

\* a body that always carries the default generation configuration
build_request_body_DefaultOptions(s, contents) ==
    [contents |-> contents,
     generation_config |-> Some(GenerationConfigDefault),
     system_instruction |->
        IF s.system_instruction = None THEN None
        ELSE Some(Content(<<Text(s.system_instruction[1])>>, None))]

\* GeminiRequestBody { contents, generation_config: Some(self.options.clone()),
\*                     system_instruction: self.system_instruction.clone().map(..) }
build_request_body(s, contents) ==
    [contents |-> contents,
     generation_config |-> Some(s.options),
     system_instruction |->
        IF s.system_instruction = None THEN None
        ELSE Some(Content(<<Text(s.system_instruction[1])>>, None))]

\* a request that carries the stored history, whatever content list was built
PostRequest_Stored(s, contents) ==
    [method |-> "POST",
     url |-> s.url \o "?key=" \o s.key,
     content_type |-> "application/json",
     body |-> build_request_body(s, s.contents)]

\* client.post(format!("{}?key={}", self.url, self.key))
\*       .header("Content-Type", "application/json").body(body_json)
PostRequest(s, contents) ==
    [method |-> "POST",
     url |-> s.url \o "?key=" \o s.key,
     content_type |-> "application/json",
     body |-> build_request_body(s, contents)]

\* a client that sends the request again after a transport failure
Issue_Retry(request, outcome) ==
    IF outcome.kind = "transport_error" THEN <<request, request>> ELSE <<request>>

\* .send(): the requests that reach the generation endpoint for one call
Issue(request, outcome) == <<request>>

-----------------------------------------------------------------------------
(* The steps of a send after the request was built *)

Push(contents, turn) == Append(contents, turn)

\* Vec::pop: removes the last element, does nothing on an empty vector
Pop(contents) ==
    IF contents = <<>> THEN contents ELSE SubSeq(contents, 1, Len(contents) - 1)

\* the reply pushed with the role of the sender
AppendModelTurn_AsUser(contents, text) == Push(contents, UserText(text))

\* self.contents.push(Content { role: Some(Role::Model), parts: vec![Part::Text(s)] })
AppendModelTurn(contents, text) == Push(contents, ModelText(text))

\* a non-success branch without the pop
RollBack_Missing(contents) == contents

\* self.contents.pop() of the non-success branch
RollBack(contents) == Pop(contents)

\* a match that takes the payload of an inline-data part as the reply
MatchFirstPart_Lenient(contents, response, push) ==
    IF response.candidates = <<>>
    THEN [contents |-> contents, result |-> Panic("index out of bounds")]
    ELSE IF response.candidates[1].content.parts = <<>>
    THEN [contents |-> contents, result |-> Panic("index out of bounds")]
    ELSE LET part == response.candidates[1].content.parts[1]
             s == IF part.tag = "Text" THEN part.text ELSE part.data
         IN  [contents |-> IF push THEN Push(contents, ModelText(s)) ELSE contents,
              result |-> Ok(s, response)]

\* a match on the first part of the last candidate
MatchFirstPart_LastCandidate(contents, response, push) ==
    IF response.candidates = <<>>
    THEN [contents |-> contents, result |-> Panic("index out of bounds")]
    ELSE IF response.candidates[Len(response.candidates)].content.parts = <<>>
    THEN [contents |-> contents, result |-> Panic("index out of bounds")]
    ELSE LET part == response.candidates[Len(response.candidates)].content.parts[1]
         IN  IF part.tag = "Text"
             THEN [contents |-> IF push THEN Push(contents, ModelText(part.text))
                                ELSE contents,
                   result |-> Ok(part.text, response)]
             ELSE [contents |-> contents,
                   result |-> Err("message", UnexpectedResponseFormat)]

\* match response.candidates[0].content.parts[0] { Part::Text(s) => ..., _ => bail!(..) }
\* push: whether the Part::Text arm pushes the model turn
MatchFirstPart(contents, response, push) ==
    IF response.candidates = <<>>
    THEN [contents |-> contents, result |-> Panic("index out of bounds")]
    ELSE IF response.candidates[1].content.parts = <<>>
    THEN [contents |-> contents, result |-> Panic("index out of bounds")]
    ELSE LET part == response.candidates[1].content.parts[1]
         IN  IF part.tag = "Text"
             THEN [contents |-> IF push THEN AppendModelTurn(contents, part.text)
                                ELSE contents,
                   result |-> Ok(part.text, response)]
             ELSE [contents |-> contents,
                   result |-> Err("message", UnexpectedResponseFormat)]

\* the branch `if response.status().is_success() { ... }`
OnSuccess(contents, body, push) ==
    IF ~body.readable
    THEN [contents |-> contents, result |-> Err("reqwest", "")]
    ELSE LET parsed == ParseResponse(body.json)
         IN  IF parsed.kind = "Err"
             THEN [contents |-> contents, result |-> parsed]
             ELSE MatchFirstPart(contents, parsed.response, push)

\* a non-success branch that reports a fixed text instead of the remote message
RemoteError_Fixed(error) == Err("message", "Request failed")

\* bail!(response_error.error.message)
RemoteError(error) == Err("message", error.message)

\* a non-success branch that removes the user turn only after the error body parsed
OnFailure_PopAfterParse(contents, body, pop) ==
    IF ~body.readable
    THEN [contents |-> contents, result |-> Err("reqwest", "")]
    ELSE LET parsed == ParseError(body.json)
         IN  IF parsed.kind = "Err"
             THEN [contents |-> contents, result |-> parsed]
             ELSE [contents |-> IF pop THEN RollBack(contents) ELSE contents,
                   result |-> RemoteError(parsed.response)]

\* the branch `else { ... }` of a non-success status
\* pop: whether the branch starts with self.contents.pop()
OnFailure(contents, body, pop) ==
    LET after == IF pop THEN RollBack(contents) ELSE contents
    IN  IF ~body.readable
        THEN [contents |-> after, result |-> Err("reqwest", "")]
        ELSE LET parsed == ParseError(body.json)
             IN  IF parsed.kind = "Err"
                 THEN [contents |-> after, result |-> parsed]
                 ELSE [contents |-> after, result |-> RemoteError(parsed.response)]

\* an exchange that consumes the system instruction of the session
Exchange_DropsInstruction(s, contents, outcome, push, pop) ==
    LET request == PostRequest(s, contents)
        requests == Issue(request, outcome)
        t == [s EXCEPT !.system_instruction = None]
    IN  IF outcome.kind = "transport_error"
        THEN [self |-> t, requests |-> requests, result |-> Err("reqwest", "")]
        ELSE LET r == IF outcome.success
                      THEN OnSuccess(s.contents, outcome.body, push)
                      ELSE OnFailure(s.contents, outcome.body, pop)
             IN  [self |-> [t EXCEPT !.contents = r.contents],
                  requests |-> requests, result |-> r.result]

\* from the POST to the end of the method: s is the session when the request
\* is built, contents the content list sent
Exchange(s, contents, outcome, push, pop) ==
    LET request == PostRequest(s, contents)
        requests == Issue(request, outcome)
    IN  IF outcome.kind = "transport_error"
        THEN [self |-> s, requests |-> requests, result |-> Err("reqwest", "")]
        ELSE LET r == IF outcome.success
                      THEN OnSuccess(s.contents, outcome.body, push)
                      ELSE OnFailure(s.contents, outcome.body, pop)
             IN  [self |-> [s EXCEPT !.contents = r.contents],
                  requests |-> requests, result |-> r.result]

-----------------------------------------------------------------------------
(* send_message, send_simple_message *)

\* a send_message that leaves accumulating mode when the call fails
send_message_EndsChat(s, message, outcome) ==
    LET r == IF ~s.conversation
             THEN Exchange(s, <<message>>, outcome, TRUE, FALSE)
             ELSE LET s1 == [s EXCEPT !.contents = Push(s.contents, message)]
                  IN  Exchange(s1, s1.contents, outcome, TRUE, TRUE)
    IN  IF r.result.kind = "Err"
        THEN [r EXCEPT !.self = [r.self EXCEPT !.conversation = FALSE]]
        ELSE r

send_message(s, message, outcome) ==
    IF ~s.conversation
    THEN Exchange(s, <<message>>, outcome, TRUE, FALSE)
    ELSE LET s1 == [s EXCEPT !.contents = Push(s.contents, message)]
         IN  Exchange(s1, s1.contents, outcome, TRUE, TRUE)

send_simple_message(s, message, outcome) ==
    IF ~s.conversation
    THEN Exchange(s, <<UserText(message)>>, outcome, TRUE, FALSE)
    ELSE LET s1 == [s EXCEPT !.contents = Push(s.contents, UserText(message))]
         IN  Exchange(s1, s1.contents, outcome, TRUE, TRUE)

-----------------------------------------------------------------------------
(* The deprecated text operations of model::blocking::Gemini *)

\* Result<String>: Ok carries the text alone
TextOnly(r) ==
    [r EXCEPT !.result = IF @.kind = "Ok" THEN [kind |-> "Ok", text |-> @.text] ELSE @]

\* pub fn chat_once(&self, content: String) -> Result<String>
chat_once(s, content, outcome) ==
    TextOnly(Exchange(s, <<UserText(content)>>, outcome, FALSE, FALSE))

\* pub fn chat_conversation(&mut self, content: String) -> Result<String>
chat_conversation(s, content, outcome) ==
    LET s1 == [s EXCEPT !.contents = Push(s.contents, UserText(content))]
    IN  TextOnly(Exchange(s1, s1.contents, outcome, TRUE, TRUE))

-----------------------------------------------------------------------------
(* The image source (utils::image and the inlined copy in send_image_message) *)

\* image bytes: the format image::guess_format finds in the magic bytes, if any
ImageBytes ==
    {[format |-> Some("Png"), id |-> "logo"], [format |-> Some("WebP"), id |-> "banner"],
     [format |-> None, id |-> "junk"]}

LocalPath == [prefix |-> "", rest |-> "./file_type_rust.png"]
RemotePath == [prefix |-> "https://", rest |-> "img.example/i.webp"]

\* an image argument together with what reading or fetching it yields
ImageInputs ==
    {[path |-> LocalPath, io |-> e] : e \in {"open_error", "read_error"}}
    \cup {[path |-> LocalPath, io |-> "ok", bytes |-> b] : b \in {x \in ImageBytes : x.id # "banner"}}
    \cup {[path |-> RemotePath, io |-> e] : e \in {"transport_error", "body_error"}}
    \cup {[path |-> RemotePath, io |-> "status", status |-> "404 Not Found"]}
    \cup {[path |-> RemotePath, io |-> "ok", bytes |-> b] : b \in {x \in ImageBytes : x.id # "logo"}}

\* image_path.starts_with("https://") || image_path.starts_with("http://")
IsUrl(path) == path.prefix \in {"https://", "http://"}

\* general_purpose::STANDARD.encode(&bytes)
Base64(bytes) == "base64:" \o bytes.id

ImageOk(mime_type, data) == [kind |-> "Ok", mime_type |-> mime_type, data |-> data]

guess_image_format(bytes) ==
    IF bytes.format = None
    THEN Panic("called Result::unwrap() on an Err value")
    ELSE LET img == bytes.format[1]
         IN  ImageOk(CASE img = "Png" -> "image/png"
                       [] img = "Jpeg" -> "image/jpeg"
                       [] img = "Gif" -> "image/gif"
                       [] img = "WebP" -> "image/webp"
                       [] img = "Pnm" -> "image/x-portable-anymap"
                       [] img = "Tiff" -> "image/tiff"
                       [] img = "Tga" -> "image/x-tga"
                       [] img = "Dds" -> "image/vnd.ms-dds"
                       [] img = "Bmp" -> "image/bmp"
                       [] img = "Ico" -> "image/x-icon"
                       [] img = "Hdr" -> "image/vnd.radiance"
                       [] img = "OpenExr" -> "image/x-exr"
                       [] img = "Farbfeld" -> "image/x-farbfeld"
                       [] img = "Avif" -> "image/avif"
                       [] img = "Qoi" -> "image/x-qoi"
                       [] OTHER -> "unknown",
                     Base64(bytes))

\* Result<(String, String)> of resolving the image, or the panic of guess_image_format
get_image_type_and_base64_string(image) ==
    IF IsUrl(image.path)
    THEN CASE image.io = "transport_error" -> Err("reqwest", "")
           [] image.io = "status" ->
                Err("message", "Failed to download image, status: " \o image.status)
           [] image.io = "body_error" -> Err("reqwest", "")
           [] image.io = "ok" -> guess_image_format(image.bytes)
    ELSE CASE image.io = "open_error" -> Err("io", "")
           [] image.io = "read_error" -> Err("io", "")
           [] image.io = "ok" -> guess_image_format(image.bytes)

\* Result::unwrap
Unwrap(r) ==
    IF r.kind = "Err" THEN Panic("called Result::unwrap() on an Err value") ELSE r

\* the way the stateless branch takes the image result:
\* `?` in model::Gemini, `.unwrap()` in model::blocking::Gemini
StatelessImage(c, image) ==
    IF c = "blocking"
    THEN Unwrap(get_image_type_and_base64_string(image))
    ELSE get_image_type_and_base64_string(image)

\* an accumulating branch that pushes the user turn before it resolves the image
ImageFailure_AfterPush(s, r) ==
    [self |-> IF s.conversation
              THEN [s EXCEPT !.contents = Push(@, Content(<<Text("m1")>>, Some("user")))]
              ELSE s,
     requests |-> <<>>, result |-> r]

\* the call ends at the image source: nothing was sent, nothing was pushed
ImageFailure(s, r) == [self |-> s, requests |-> <<>>, result |-> r]

\* a turn with the inline-data part before the text part
ImageTurn_Swapped(text, img) ==
    Content(<<InlineData(img.mime_type, img.data), Text(text)>>, Some("user"))

\* Content { role: Some(Role::User), parts: vec![Part::Text(text), Part::InlineData { .. }] }
ImageTurn(text, img) ==
    Content(<<Text(text), InlineData(img.mime_type, img.data)>>, Some("user"))

send_image_message(c, s, image, text, outcome) ==
    IF ~s.conversation
    THEN LET img == StatelessImage(c, image)
         IN  IF img.kind # "Ok"
             THEN ImageFailure(s, img)
             ELSE Exchange(s, <<ImageTurn(text, img)>>, outcome, FALSE, FALSE)
    ELSE LET img == get_image_type_and_base64_string(image)
         IN  IF img.kind # "Ok"
             THEN ImageFailure(s, img)
             ELSE LET s1 == [s EXCEPT !.contents = Push(s.contents, ImageTurn(text, img))]
                  IN  Exchange(s1, s1.contents, outcome, TRUE, TRUE)

\* whether a send_image_message call on session s gets as far as the POST
ReachesPost(c, s, image) ==
    (IF s.conversation THEN get_image_type_and_base64_string(image)
     ELSE StatelessImage(c, image)).kind = "Ok"

-----------------------------------------------------------------------------
(* Observers *)

SendOps == {"send_message", "send_simple_message", "send_image_message"}

\* pre: the session before the call; input: the arguments; outcome: what the POST
\* yielded; requests: the requests sent to the generation endpoint; result: what
\* the caller got
\* first: whether the call is the first send since start_chat or rebuild
NoCall(s) ==
    [op |-> "none", pre |-> s, input |-> None, outcome |-> NoOutcome,
     requests |-> <<>>, result |-> [kind |-> "none"], first |-> FALSE]

Call(op, s, input, outcome, r) ==
    [op |-> op, pre |-> s, input |-> input, outcome |-> outcome,
     requests |-> r.requests, result |-> r.result, first |-> started.fresh]

\* a constructor or a setter was called: it issues no request and returns no Result
Made(op, s, input) == [NoCall(s) EXCEPT !.op = op, !.input = input]

\* history: the history given to start_chat or rebuild; fresh: no send since then
NotStarted ==
    [fromEmpty |-> FALSE, log |-> <<>>, failed |-> FALSE, history |-> <<>>, fresh |-> FALSE]
StartedWith(contents) ==
    [fromEmpty |-> contents = <<>>, log |-> <<>>, failed |-> FALSE,
     history |-> contents, fresh |-> TRUE]

\* the log of successful sends since the session became accumulating and empty
Observe(op, input, r) ==
    LET s == [started EXCEPT !.fresh = FALSE]
    IN  IF ~started.fromEmpty THEN s
        ELSE IF r.result.kind = "Ok"
        THEN [s EXCEPT !.log = Append(@, [op |-> op, input |-> input, reply |-> r.result.text])]
        ELSE [s EXCEPT !.failed = TRUE]

\* what the caller gave: to rebuild, to set_options, to set_system_instruction
NothingGiven == [rebuild |-> None, set_options |-> None, instruction |-> None]

\* no function outside the session has been called
NoCalc == [op |-> "none"]

-----------------------------------------------------------------------------
(* Inputs of the public methods *)

MessageContents == {UserText("m1"), Content(<<Text("m2")>>, None)}
Histories == {<<>>, <<UserText("m1"), ModelText("r1")>>}
\* what a session is rebuilt with: a persisted model and non-default options
RebuildModels == {Custom("tunedModels/x")}
RebuildOptions == OptionValues \ {GenerationConfigDefault}

\* a panic ends the calling thread: no further call on the session is modelled
Alive == last.result.kind # "Panic"
\* no call is in progress and the previous result has been taken by the caller
Idle == last.op = "none"
Room == Len(self.contents) + 2 <= MaxHistory

-----------------------------------------------------------------------------
(* Specification *)

Init ==
    /\ client \in Clients
    /\ \/ \E k \in Keys : /\ self = new_default_model(k) /\ client = "async"
                          /\ given = NothingGiven
                          /\ last = Made("new_default_model", self, [key |-> k])
       \/ \E k \in Keys, m \in Models :
             /\ self = new(k, m) /\ given = NothingGiven
             /\ last = Made("new", self, [key |-> k, model |-> m])
       \/ \E k \in Keys, m \in RebuildModels, h \in Histories, o \in RebuildOptions :
             /\ self = rebuild(k, m, h, o)
             /\ given = [NothingGiven EXCEPT !.rebuild = Some(o)]
             /\ last = Made("rebuild", self,
                            [key |-> k, model |-> m, contents |-> h, options |-> o])
    /\ started = IF self.conversation THEN StartedWith(self.contents) ELSE NotStarted
    /\ calc = NoCalc

\* a start_chat that keeps what the session held and adds the given history
start_chat_Extends(s, contents) ==
    [s EXCEPT !.contents = s.contents \o contents, !.conversation = TRUE]

\* self.contents = contents; self.conversation = true;
start_chat(s, contents) ==
    [s EXCEPT !.contents = contents, !.conversation = TRUE]

SetSystemInstruction ==
    /\ Idle
    /\ \E instruction \in Instructions :
          /\ self' = [self EXCEPT !.system_instruction = Some(instruction)]
          /\ given' = [given EXCEPT !.instruction = Some(instruction)]
          /\ last' = [Made("set_system_instruction", self', instruction) EXCEPT !.pre = self]
    /\ UNCHANGED <<client, started, calc>>

SetOptions ==
    /\ Idle
    /\ \E options \in OptionValues :
          /\ self' = [self EXCEPT !.options = options]
          /\ given' = [given EXCEPT !.set_options = Some(options)]
          /\ last' = [Made("set_options", self', options) EXCEPT !.pre = self]
    /\ UNCHANGED <<client, started, calc>>

StartChat ==
    /\ Idle
    /\ \E contents \in Histories :
          /\ self' = start_chat(self, contents)
          /\ started' = StartedWith(contents)
          /\ last' = [Made("start_chat", self', contents) EXCEPT !.pre = self]
    /\ UNCHANGED <<client, given, calc>>

SendMessage ==
    /\ Idle /\ Room
    /\ \E message \in MessageContents, outcome \in Outcomes :
          LET r == send_message(self, message, outcome)
          IN  /\ self' = r.self
              /\ last' = Call("send_message", self, message, outcome, r)
              /\ started' = Observe("send_message", message, r)
    /\ UNCHANGED <<client, given, calc>>

SendSimpleMessage ==
    /\ Idle /\ Room
    /\ \E message \in Messages, outcome \in Outcomes :
          LET r == send_simple_message(self, message, outcome)
          IN  /\ self' = r.self
              /\ last' = Call("send_simple_message", self, message, outcome, r)
              /\ started' = Observe("send_simple_message", message, r)
    /\ UNCHANGED <<client, given, calc>>

SendImageMessage ==
    /\ Idle /\ Room
    /\ \E image \in ImageInputs, text \in {"m1"} :
       \E outcome \in IF ReachesPost(client, self, image) THEN Outcomes ELSE {NoOutcome} :
          LET r == send_image_message(client, self, image, text, outcome)
              input == [image |-> image, text |-> text]
          IN  /\ self' = r.self
              /\ last' = Call("send_image_message", self, input, outcome, r)
              /\ started' = Observe("send_image_message", input, r)
    /\ UNCHANGED <<client, given, calc>>

\* the caller takes the result of the call; the session is ready for the next call
Return ==
    /\ ~Idle /\ Alive
    /\ last' = NoCall(self)
    /\ UNCHANGED <<client, self, started, given, calc>>

Next ==
    \/ SetSystemInstruction
    \/ SetOptions
    \/ StartChat
    \/ SendMessage
    \/ SendSimpleMessage
    \/ SendImageMessage
    \/ Return

Spec == Init /\ [][Next]_vars

-----------------------------------------------------------------------------
(* param::LanguageModel: From<String> *)

\* a conversion that matches the serde names of the variants
LanguageModelFrom_SerdeNames(val) ==
    CASE val = "gemini-1.0-pro" -> Gemini1_0Pro
      [] val = "gemini-1.5-pro" -> Gemini1_5Pro
      [] val = "gemini-1.5-flash" -> Gemini1_5Flash
      [] val = "gemini-2.0-flash-exp" -> Gemini2_0FlashExp
      [] OTHER -> Custom(val)

\* impl From<String> for LanguageModel
LanguageModelFrom(val) ==
    CASE val = "models/gemini-1.0-pro" -> Gemini1_0Pro
      [] val = "models/gemini-1.5-pro" -> Gemini1_5Pro
      [] val = "models/gemini-1.5-flash" -> Gemini1_5Flash
      [] val = "models/gemini-2.0-flash-exp" -> Gemini2_0FlashExp
      [] OTHER -> Custom(val)

KnownModels == {Gemini1_0Pro, Gemini1_5Pro, Gemini1_5Flash, Gemini2_0FlashExp}

\* strings given to LanguageModel::from
ModelNames ==
    {Display(m) : m \in KnownModels}
    \cup {"gemini-1.0-pro", "gemini-1.5-flash", "gemini-2.0-flash-exp", "",
          "tunedModels/x", "models/gemini-1.5-flash-8b", "Models/Gemini-1.5-Pro",
          "models/gemini-1.5-pro ", "Gemini1_5Pro"}

\* values rendered with to_string
LanguageModels ==
    KnownModels \cup {Custom(s) : s \in {"tunedModels/x", "models/gemini-1.5-pro", ""}}

-----------------------------------------------------------------------------
(* get_models *)

Model(name) == [name |-> name]
ModelsResponse(models, next_page_token) ==
    [models |-> models, next_page_token |-> next_page_token]

ModelLists ==
    {<<>>, <<Model("models/a")>>, <<Model("models/a"), Model("models/b")>>,
     <<Model("models/b"), Model("models/a")>>}
Pages == {ModelsResponse(ms, t) : ms \in ModelLists, t \in {None, Some("page2")}}

\* the body of the answer of the model-list endpoint: the page it holds, if it parses
ListBodies ==
    {[readable |-> FALSE], [readable |-> TRUE, page |-> None]}
    \cup {[readable |-> TRUE, page |-> Some(p)] : p \in Pages}

ListOutcomes ==
    {[kind |-> "transport_error"]}
    \cup {[kind |-> "response", success |-> TRUE, body |-> b] : b \in ListBodies}
    \cup {[kind |-> "response", success |-> FALSE, body |-> b] :
            b \in {x \in ListBodies : x.readable => x.page \in {None, Some(ModelsResponse(<<Model("models/a")>>, None))}}}

ListKeys == {"k1", "k2"}

\* client.get(format!("{}?key={}", url, key))
ListRequest(key) ==
    [method |-> "GET",
     url |-> "https://generativelanguage.googleapis.com/v1beta/models" \o "?key=" \o key]

Listed(models) == [kind |-> "Ok", models |-> models]

\* a listing that fetches again when the page names a next page
get_models_FollowsToken(key, outcome) ==
    LET request == ListRequest(key)
    IN  IF outcome.kind = "transport_error"
        THEN [requests |-> <<request>>, result |-> Err("reqwest", "")]
        ELSE IF ~outcome.success
        THEN [requests |-> <<request>>, result |-> Err("message", "Failed to get models")]
        ELSE IF ~outcome.body.readable
        THEN [requests |-> <<request>>, result |-> Err("reqwest", "")]
        ELSE IF outcome.body.page = None
        THEN [requests |-> <<request>>, result |-> Err("serde_json", "")]
        ELSE IF outcome.body.page[1].next_page_token = None
        THEN [requests |-> <<request>>, result |-> Listed(outcome.body.page[1].models)]
        ELSE [requests |-> <<request, request>>,
              result |-> Listed(outcome.body.page[1].models \o outcome.body.page[1].models)]

\* pub async fn get_models(key: String) -> Result<Vec<Model>>
get_models(key, outcome) ==
    LET request == ListRequest(key)
    IN  IF outcome.kind = "transport_error"
        THEN [requests |-> <<request>>, result |-> Err("reqwest", "")]
        ELSE IF ~outcome.success
        THEN [requests |-> <<request>>, result |-> Err("message", "Failed to get models")]
        ELSE IF ~outcome.body.readable
        THEN [requests |-> <<request>>, result |-> Err("reqwest", "")]
        ELSE IF outcome.body.page = None
        THEN [requests |-> <<request>>, result |-> Err("serde_json", "")]
        ELSE [requests |-> <<request>>, result |-> Listed(outcome.body.page[1].models)]

-----------------------------------------------------------------------------
(* body::request: serde_json::to_string(&GeminiRequestBody) *)

JsonString(s) == [json |-> "string", v |-> s]
\* a number, by its text in the output
JsonNumber(text) == [json |-> "number", v |-> text]
JsonNull == [json |-> "null"]
JsonArray(items) == [json |-> "array", items |-> items]
\* an object: its members in the order they are written
JsonObject(members) == [json |-> "object", members |-> members]
Member(key, value) == [key |-> key, value |-> value]

\* an absent field written as null
Optional_Null(key, value) ==
    IF value = None THEN <<Member(key, JsonNull)>> ELSE <<Member(key, value[1])>>

\* an Option field: written when present, left out when absent
Optional(key, value) ==
    IF value = None THEN <<>> ELSE <<Member(key, value[1])>>

\* GenerationConfig: its five Option fields
ConfigFields(mime, tokens, temperature, top_p, top_k) ==
    [response_mime_type |-> mime, max_output_tokens |-> tokens,
     temperature |-> temperature, top_p |-> top_p, top_k |-> top_k]

\* GenerationConfig::default(), field by field
DefaultFields ==
    ConfigFields(Some(GenerationConfigDefault.response_mime_type),
                 Some(GenerationConfigDefault.max_output_tokens),
                 Some(GenerationConfigDefault.temperature),
                 Some(GenerationConfigDefault.top_p),
                 Some(GenerationConfigDefault.top_k))

SerializePart(part) == JsonObject(<<Member("text", JsonString(part.text))>>)

SerializeContent(content) ==
    JsonObject(
        <<Member("parts", JsonArray([i \in 1..Len(content.parts) |-> SerializePart(content.parts[i])]))>>
        \o Optional("role", IF content.role = None THEN None
                            ELSE Some(JsonString(content.role[1]))))

SerializeGenerationConfig(g) ==
    JsonObject(
        Optional("responseMimeType",
                 IF g.response_mime_type = None THEN None
                 ELSE Some(JsonString(g.response_mime_type[1])))
        \o Optional("maxOutputTokens",
                 IF g.max_output_tokens = None THEN None
                 ELSE Some(JsonNumber(ToString(g.max_output_tokens[1]))))
        \o Optional("temperature",
                 IF g.temperature = None THEN None ELSE Some(JsonNumber(g.temperature[1])))
        \o Optional("topP", IF g.top_p = None THEN None ELSE Some(JsonNumber(g.top_p[1])))
        \o Optional("topK",
                 IF g.top_k = None THEN None ELSE Some(JsonNumber(ToString(g.top_k[1])))))

\* serde_json::to_string(&body)
to_string(body) ==
    JsonObject(
        <<Member("contents",
                 JsonArray([i \in 1..Len(body.contents) |-> SerializeContent(body.contents[i])]))>>
        \o Optional("generationConfig",
                 IF body.generation_config = None THEN None
                 ELSE Some(SerializeGenerationConfig(body.generation_config[1])))
        \o Optional("systemInstruction",
                 IF body.system_instruction = None THEN None
                 ELSE Some(SerializeContent(body.system_instruction[1]))))

\* request bodies given to the serializer
TextTurns ==
    {Content(<<Text(s)>>, r) : s \in {"Hello, world!", "m1"},
                               r \in {None, Some("user"), Some("model")}}
ContentLists ==
    {<<c>> : c \in TextTurns} \cup {<<UserText("m1"), ModelText("r1"), UserText("m2")>>}
ConfigInputs ==
    {DefaultFields, [DefaultFields EXCEPT !.top_k = None],
     ConfigFields(None, None, None, None, None)}
RequestBodies ==
    {[contents |-> cs, generation_config |-> g, system_instruction |-> i] :
        cs \in ContentLists,
        g \in {None} \cup {Some(x) : x \in ConfigInputs},
        i \in {None, Some(Content(<<Text("sys1")>>, None))}}

-----------------------------------------------------------------------------
(* body::error and body::response: serde_json::to_string of the schema types *)

\* an Option field without skip_serializing_if: derive(Serialize) writes null for None
Nullable(key, value) ==
    <<Member(key, IF value = None THEN JsonNull ELSE value[1])>>

OptionalString(key, value) ==
    Optional(key, IF value = None THEN None ELSE Some(JsonString(value[1])))

\* struct Metadata
SerializeMetadata(m) == JsonObject(<<Member("service", JsonString(m.service))>>)

\* struct Detail: every Option field has skip_serializing_if = "Option::is_none"
SerializeDetail(d) ==
    JsonObject(
        <<Member("@type", JsonString(d.type0))>>
        \o OptionalString("reason", d.reason)
        \o OptionalString("domain", d.domain)
        \o Optional("metadata", IF d.metadata = None THEN None
                                ELSE Some(SerializeMetadata(d.metadata[1]))))

\* struct Error: status has skip_serializing_if, details has not
SerializeError(e) ==
    JsonObject(
        <<Member("code", JsonNumber(ToString(e.code))),
          Member("message", JsonString(e.message))>>
        \o OptionalString("status", e.status)
        \o Nullable("details",
                IF e.details = None THEN None
                ELSE Some(JsonArray([i \in 1..Len(e.details[1]) |->
                                        SerializeDetail(e.details[1][i])]))))

\* struct UsageMetadata (rename_all = "camelCase", no skip_serializing_if)
SerializeUsageMetadata(u) ==
    JsonObject(
        <<Member("promptTokenCount", JsonNumber(ToString(u.prompt_token_count)))>>
        \o Nullable("cachedContentTokenCount",
                IF u.cached_content_token_count = None THEN None
                ELSE Some(JsonNumber(ToString(u.cached_content_token_count[1]))))
        \o <<Member("candidatesTokenCount", JsonNumber(ToString(u.candidates_token_count))),
             Member("totalTokenCount", JsonNumber(ToString(u.total_token_count)))>>)

\* values of the schema types given to the serializer
Details ==
    {[type0 |-> "type.googleapis.com/google.rpc.ErrorInfo", reason |-> r, domain |-> d,
      metadata |-> m] :
        r \in {None, Some("API_KEY_INVALID")},
        d \in {None, Some("googleapis.com")},
        m \in {None, Some([service |-> "generativelanguage.googleapis.com"])}}
Errors ==
    {[code |-> 400, message |-> "API key not valid", status |-> s, details |-> ds] :
        s \in {None, Some("INVALID_ARGUMENT")},
        ds \in {None} \cup {Some(<<d>>) : d \in Details}}
UsageMetadatas ==
    {[prompt_token_count |-> 3, cached_content_token_count |-> c,
      candidates_token_count |-> 5, total_token_count |-> 8] : c \in {None, Some(2)}}
SchemaValues ==
    {[type |-> "Error", value |-> e] : e \in Errors}
    \cup {[type |-> "Detail", value |-> d] : d \in Details}
    \cup {[type |-> "UsageMetadata", value |-> u] : u \in UsageMetadatas}

\* serde_json::to_string of a value of one of these types
to_string_schema(x) ==
    CASE x.type = "Error" -> SerializeError(x.value)
      [] x.type = "Detail" -> SerializeDetail(x.value)
      [] x.type = "UsageMetadata" -> SerializeUsageMetadata(x.value)

-----------------------------------------------------------------------------
(* Specification of the functions outside the session: a call is drawn, then made *)

Pending(op, input) == [op |-> op, input |-> input, done |-> FALSE]

InitLib ==
    /\ client = "async"
    /\ self = new_default_model("k1")
    /\ last = NoCall(self)
    /\ started = NotStarted
    /\ given = NothingGiven
    /\ calc \in {Pending("from", s) : s \in ModelNames}
           \cup {Pending("to_string", m) : m \in LanguageModels}
           \cup {Pending("enum", x) : x \in EnumValues}
           \cup {Pending("get_models", [key |-> k, outcome |-> o]) : k \in ListKeys, o \in ListOutcomes}
           \cup {Pending("to_string_body", b) : b \in RequestBodies}
           \cup {Pending("to_string_schema", x) : x \in SchemaValues}

\* LanguageModel::from(s), rendered again
FromString ==
    /\ calc.op = "from" /\ ~calc.done
    /\ calc' = [op |-> "from", input |-> calc.input, done |-> TRUE,
                model |-> LanguageModelFrom(calc.input),
                text |-> Display(LanguageModelFrom(calc.input))]
    /\ UNCHANGED <<client, self, last, started, given>>

\* m.to_string(), converted again
ModelToString ==
    /\ calc.op = "to_string" /\ ~calc.done
    /\ calc' = [op |-> "to_string", input |-> calc.input, done |-> TRUE,
                text |-> Display(calc.input),
                model |-> LanguageModelFrom(Display(calc.input))]
    /\ UNCHANGED <<client, self, last, started, given>>

\* an enum value serialized, the token deserialized
EnumRoundTrip ==
    /\ calc.op = "enum" /\ ~calc.done
    /\ calc' = [op |-> "enum", input |-> calc.input, done |-> TRUE,
                token |-> encode(calc.input),
                decoded |-> decode(calc.input.enum, encode(calc.input))]
    /\ UNCHANGED <<client, self, last, started, given>>

GetModels ==
    /\ calc.op = "get_models" /\ ~calc.done
    /\ LET r == get_models(calc.input.key, calc.input.outcome)
       IN  calc' = [op |-> "get_models", input |-> calc.input, done |-> TRUE,
                    requests |-> r.requests, result |-> r.result]
    /\ UNCHANGED <<client, self, last, started, given>>

SerializeBody ==
    /\ calc.op = "to_string_body" /\ ~calc.done
    /\ calc' = [op |-> "to_string_body", input |-> calc.input, done |-> TRUE,
                json |-> to_string(calc.input)]
    /\ UNCHANGED <<client, self, last, started, given>>

SerializeSchema ==
    /\ calc.op = "to_string_schema" /\ ~calc.done
    /\ calc' = [op |-> "to_string_schema", input |-> calc.input, done |-> TRUE,
                json |-> to_string_schema(calc.input)]
    /\ UNCHANGED <<client, self, last, started, given>>

NextLib ==
    \/ FromString
    \/ ModelToString
    \/ EnumRoundTrip
    \/ GetModels
    \/ SerializeBody
    \/ SerializeSchema

SpecLib == InitLib /\ [][NextLib]_vars

-----------------------------------------------------------------------------
(* Two sessions held by one caller: each Gemini value owns its Vec<Content> *)

\* where the content buffers of the two sessions live
Addresses == {"first", "second"}

\* a session as it is laid out: the contents field refers to a buffer
Handle(s, address) == [s EXCEPT !.contents = address]
\* the session a handle stands for, its buffer read from the heap
View(heap, h) == [h EXCEPT !.contents = heap[h.contents]]

\* a clone whose history vector is the buffer of the original
Clone_Shared(heap, h, address) == [heap |-> heap, session |-> h]

\* #[derive(Clone)] of struct Gemini: Vec<Content>::clone copies the elements
\* into a buffer of its own
Clone(heap, h, address) ==
    [heap |-> [heap EXCEPT ![address] = heap[h.contents]],
     session |-> [h EXCEPT !.contents = address]]

\* what the remote side answers in this specification
PairOutcomes ==
    {[kind |-> "transport_error"],
     [kind |-> "response", success |-> TRUE,
      body |-> [readable |-> TRUE,
                json |-> Json(None, Some(ResponseEnvelope(<<Candidate(<<Text("r1")>>)>>)))]],
     [kind |-> "response", success |-> FALSE,
      body |-> [readable |-> TRUE,
                json |-> Json(Some(ErrorEnvelope("API key not valid")), None)]]}

\* the first session is constructed; the second does not exist yet
\* alone: each session as it would be if it were the only one the calls were made on
Pair(s) ==
    [op |-> "pair",
     heap |-> [a \in Addresses |-> IF a = "first" THEN s.contents ELSE <<>>],
     sessions |-> [first |-> Some(Handle(s, "first")), second |-> None],
     alone |-> [first |-> Some(s), second |-> None],
     cloned |-> FALSE, sent |-> {}, sender |-> "none",
     requests |-> <<>>, result |-> [kind |-> "none"],
     expected |-> [requests |-> <<>>, result |-> [kind |-> "none"]]]

InitPair ==
    /\ client = "async"
    /\ self = new_default_model("k1")
    /\ last = NoCall(self)
    /\ started = NotStarted
    /\ given = NothingGiven
    /\ calc \in {Pair(new(k, m)) : k \in Keys, m \in Models}
              \cup {Pair(rebuild(k, m, h, o)) :
                        k \in Keys, m \in RebuildModels, h \in Histories, o \in RebuildOptions}

\* let second = first.clone();
CloneSession ==
    /\ calc.op = "pair" /\ calc.sessions.second = None
    /\ LET c == Clone(calc.heap, calc.sessions.first[1], "second")
       IN  calc' = [calc EXCEPT !.heap = c.heap,
                                !.sessions.second = Some(c.session),
                                !.alone.second = calc.alone.first,
                                !.cloned = TRUE, !.sender = "none"]
    /\ UNCHANGED <<client, self, last, started, given>>

\* let second = Gemini::new(key, model); then second.start_chat(contents)
SecondSession ==
    /\ calc.op = "pair" /\ calc.sessions.second = None
    /\ \E k \in Keys, m \in Models, h \in Histories :
          LET s == start_chat(new(k, m), h)
          IN  calc' = [calc EXCEPT !.heap["second"] = s.contents,
                                   !.sessions.second = Some(Handle(s, "second")),
                                   !.alone.second = Some(s),
                                   !.sender = "none"]
    /\ UNCHANGED <<client, self, last, started, given>>

\* who.send_simple_message(message): the method works on the buffer of its session
SendOn(who) ==
    /\ calc.op = "pair"
    /\ LET h == calc.sessions[who][1]
           s == View(calc.heap, h)
       IN  /\ Len(s.contents) + 2 <= MaxHistory
           /\ Len(calc.alone[who][1].contents) + 2 <= MaxHistory
           /\ \E message \in Messages, outcome \in PairOutcomes :
                 LET r == send_simple_message(s, message, outcome)
                     e == send_simple_message(calc.alone[who][1], message, outcome)
                 IN  calc' = [calc EXCEPT
                                 !.heap[h.contents] = r.self.contents,
                                 !.alone[who] = Some(e.self),
                                 !.sent = IF calc.sessions.second = None THEN {}
                                          ELSE calc.sent \cup {who},
                                 !.sender = who,
                                 !.requests = r.requests, !.result = r.result,
                                 !.expected = [requests |-> e.requests,
                                               result |-> e.result]]
    /\ UNCHANGED <<client, self, last, started, given>>

SendFirst ==
    /\ calc.sessions.first # None
    /\ SendOn("first")

SendSecond ==
    /\ calc.sessions.second # None
    /\ SendOn("second")

NextPair ==
    \/ CloneSession
    \/ SecondSession
    \/ SendFirst
    \/ SendSecond

SpecPair == InitPair /\ [][NextPair]_vars

-----------------------------------------------------------------------------
(* Properties *)

IsSend == last.op \in SendOps
Accumulating == last.pre.conversation
Answered == IsSend /\ last.outcome.kind = "response"
NonSuccess == Answered /\ ~last.outcome.success
Success == Answered /\ last.outcome.success
\* the body of the response was read and holds a response envelope
ParsedResponse ==
    /\ Success /\ last.outcome.body.readable
    /\ last.outcome.body.json.response # None
Candidates == last.outcome.body.json.response[1].candidates

\* C1: in accumulating mode, after a send that got a non-success HTTP status the
\* history equals the history before the call.
C1_NonSuccessRollsBack ==
    (Accumulating /\ NonSuccess) => self.contents = last.pre.contents

\* the second send of an accumulating session fails with a remote error message
C1_Witness ==
    /\ Accumulating /\ NonSuccess
    /\ last.op = "send_simple_message"
    /\ Len(last.pre.contents) = 2
    /\ last.result = Err("message", "API key not valid")

\* C2: in accumulating mode, after a send whose POST failed in the transport the
\* history equals the history before the call.
C2_TransportFailureRollsBack ==
    (IsSend /\ Accumulating /\ last.outcome.kind = "transport_error")
        => self.contents = last.pre.contents

\* C3: an accumulating session that started with an empty history holds only
\* turns that were answered; stated for its case of a send that fails on a successful
\* HTTP status whose body was read (the body is no response envelope, or the first
\* part is not text): the history holds two turns per successful send and no other.
C3_OnlyAnsweredTurns ==
    (started.fromEmpty /\ Accumulating /\ Success /\ last.outcome.body.readable
        /\ last.result.kind = "Err")
        => Len(self.contents) = 2 * Len(started.log)

\* C4: in stateless mode a send that got a text reply leaves the stored history
\* unchanged.
C4_StatelessNeverAccumulates ==
    (IsSend /\ ~Accumulating /\ last.result.kind = "Ok")
        => self.contents = last.pre.contents

OnlySimpleSends == \A i \in 1..Len(started.log) : started.log[i].op = "send_simple_message"

\* C5: after n successful send_simple_message calls and no failed call on an
\* accumulating session that started empty, the history has 2n turns: turn 2i-1 is
\* the user turn with the i-th message, turn 2i the model turn with the i-th reply.
C5_AlternatingHistory ==
    (started.fromEmpty /\ ~started.failed /\ OnlySimpleSends) =>
        /\ Len(self.contents) = 2 * Len(started.log)
        /\ \A i \in 1..Len(started.log) :
              /\ self.contents[2 * i - 1] =
                    [parts |-> <<[tag |-> "Text", text |-> started.log[i].input]>>,
                     role |-> <<"user">>]
              /\ self.contents[2 * i] =
                    [parts |-> <<[tag |-> "Text", text |-> started.log[i].reply]>>,
                     role |-> <<"model">>]

\* two successful sends with different messages and different replies
C5_Witness ==
    /\ started.fromEmpty /\ ~started.failed /\ OnlySimpleSends
    /\ Len(started.log) = 2
    /\ started.log[1].input # started.log[2].input
    /\ started.log[1].reply # started.log[2].reply
    /\ Len(self.contents) = 4

\* C6: a successful status with an empty candidate list, or a first candidate
\* without parts, makes the send return an error.
C6_EmptyCandidatesIsError ==
    (ParsedResponse /\ (Candidates = <<>> \/ Candidates[1].content.parts = <<>>))
        => last.result.kind = "Err"

\* C7: a non-success status with a body that holds the error envelope makes the
\* send fail with exactly error.message; on a successful status the message of an
\* error envelope in the body is never what the call returns.
C7_RemoteMessageSurfaced ==
    (Answered /\ last.outcome.body.readable /\ last.outcome.body.json.error # None) =>
        LET remote == [kind |-> "Err", type |-> "message",
                       message |-> last.outcome.body.json.error[1].message]
        IN  IF last.outcome.success THEN last.result # remote ELSE last.result = remote

\* a stateless send fails with the remote message
C7_Witness ==
    /\ NonSuccess /\ ~Accumulating
    /\ last.outcome.body.readable /\ last.outcome.body.json.error # None
    /\ last.result.kind = "Err" /\ last.result.message = "API key not valid"

FirstPartNotText ==
    /\ ParsedResponse
    /\ Candidates # <<>>
    /\ Candidates[1].content.parts # <<>>
    /\ Candidates[1].content.parts[1].tag # "Text"

C9_NoRetry ==
    IsSend =>
        /\ Len(last.requests) <= 1
        /\ \A i \in 1..Len(last.requests) : last.requests[i].method = "POST"

\* a send failed in the transport after its one request
C9_Witness ==
    /\ IsSend /\ last.outcome.kind = "transport_error"
    /\ Len(last.requests) = 1
    /\ last.result.kind = "Err"

ImageSourceFails ==
    /\ last.op = "send_image_message"
    /\ last.input.image.io \in {"open_error", "read_error", "transport_error", "status", "body_error"}

\* C10: when the image source of send_image_message fails, the call does not
\* succeed, no POST is issued and the history equals the history before the call.
C10_ImageFailureBeforePost ==
    ImageSourceFails =>
        /\ last.result.kind # "Ok"
        /\ last.requests = <<>>
        /\ self.contents = last.pre.contents

\* an accumulating image send whose download got a non-success status
C10_Witness ==
    /\ ImageSourceFails /\ Accumulating
    /\ last.input.image.io = "status"
    /\ last.pre.contents # <<>>
    /\ last.result.kind = "Err"

ImageSourceUnusable ==
    /\ last.op = "send_image_message"
    /\ \/ last.input.image.io # "ok"
       \/ last.input.image.bytes.format = <<>>

\* C11: when the image source of send_image_message is unusable (the local file
\* cannot be read, the remote fetch fails, the format of the bytes is not recognized),
\* the call returns an error value, in both modes and both clients.
C11_ImageFailureIsError ==
    ImageSourceUnusable => last.result.kind = "Err"

\* send_image_message got as far as the POST
ImageSent == last.op = "send_image_message" /\ last.requests # <<>>

\* the turn the claim describes for the call observed in last
ExpectedImageTurn ==
    LET bytes == last.input.image.bytes
        mime == CASE bytes.format = <<"Png">> -> "image/png"
                  [] bytes.format = <<"WebP">> -> "image/webp"
    IN  [parts |-> <<[tag |-> "Text", text |-> last.input.text],
                     [tag |-> "InlineData", mime_type |-> mime,
                      data |-> "base64:" \o bytes.id]>>,
         role |-> <<"user">>]

\* C12: the user turn sent by send_image_message has two parts, the caller's text
\* first and the inline data (sniffed MIME type, base64 payload) second, and role
\* user; in accumulating mode the history holds this turn right after the history
\* of before the call, unless a non-success status rolled it back.
C12_ImageTurnShape ==
    ImageSent =>
        LET sent == last.requests[1].body.contents
            n == Len(last.pre.contents)
        IN  /\ sent[Len(sent)] = ExpectedImageTurn
            /\ (Accumulating /\ ~NonSuccess) =>
                  /\ Len(self.contents) > n
                  /\ self.contents[n + 1] = ExpectedImageTurn

\* an accumulating image send of a fetched WebP image was answered
C12_Witness ==
    /\ ImageSent /\ Accumulating
    /\ last.input.image.bytes.format = <<"WebP">>
    /\ last.result.kind = "Ok"
    /\ Len(self.contents) = Len(last.pre.contents) + 2

\* a send got as far as the POST
Sent == IsSend /\ last.requests # <<>>
SentContents == last.requests[1].body.contents

\* the turn the call observed in last has to send, by the arguments it got
NewTurn ==
    CASE last.op = "send_message" -> last.input
      [] last.op = "send_simple_message" ->
            [parts |-> <<[tag |-> "Text", text |-> last.input]>>, role |-> <<"user">>]
      [] last.op = "send_image_message" -> ExpectedImageTurn

\* C17: the content list of the request of a send is, in accumulating mode, the
\* history of before the call followed by the new turn, and in stateless mode the
\* new turn alone, whatever the stored history holds.
C17_RequestContents ==
    Sent => SentContents = IF Accumulating THEN last.pre.contents \o <<NewTurn>>
                           ELSE <<NewTurn>>

\* a stateless send on a session whose stored history is not empty
C17_Witness ==
    /\ Sent /\ ~Accumulating
    /\ last.pre.contents # <<>>
    /\ Len(SentContents) = 1

\* the system instruction turn of a request, by what the caller gave
GivenInstructionTurn ==
    IF given.instruction = <<>> THEN <<>>
    ELSE <<[parts |-> <<[tag |-> "Text", text |-> given.instruction[1]]>>, role |-> <<>>]>>

\* C18 as stated: every request carries the options last given to set_options,
\* else the default ones, and a system instruction turn (one text part, no role)
\* exactly when set_system_instruction was called, with the last instruction set.
C18_OptionsSetElseDefault ==
    Sent =>
        /\ last.requests[1].body.generation_config =
              <<IF given.set_options # <<>> THEN given.set_options[1]
                ELSE GenerationConfigDefault>>
        /\ last.requests[1].body.system_instruction = GivenInstructionTurn

\* C18 amended: every request carries the options last given to set_options, else
\* the options the session was rebuilt with, else the default ones, and a system
\* instruction turn (one text part, no role) exactly when set_system_instruction was
\* called, with the last instruction set.
C18_OptionsSetElseConstructed ==
    Sent =>
        /\ last.requests[1].body.generation_config =
              <<IF given.set_options # <<>> THEN given.set_options[1]
                ELSE IF given.rebuild # <<>> THEN given.rebuild[1]
                ELSE GenerationConfigDefault>>
        /\ last.requests[1].body.system_instruction = GivenInstructionTurn

\* a rebuilt session on which set_options was never called sends a request with
\* the system instruction that was set
C18_Witness ==
    /\ Sent
    /\ given.rebuild # <<>> /\ given.set_options = <<>> /\ given.instruction # <<>>
    /\ last.requests[1].body.generation_config = given.rebuild
    /\ last.requests[1].body.system_instruction # <<>>

\* C19: the turn a send operation sends has role user, and in an accumulating
\* session that started with an empty history every turn at an odd position has
\* role user.
C19_OutgoingTurnIsUser ==
    /\ Sent => SentContents[Len(SentContents)].role = <<"user">>
    /\ (IsSend /\ started.fromEmpty /\ Accumulating) =>
          \A i \in 1..Len(self.contents) : i % 2 = 1 => self.contents[i].role = <<"user">>

\* C20: a send that succeeds returns the text of the first part of the first
\* candidate, and in accumulating mode the history is the content list sent followed
\* by one model turn with that text as its only part.
C20_FirstPartOfFirstCandidate ==
    (IsSend /\ last.result.kind = "Ok") =>
        /\ ParsedResponse
        /\ Candidates # <<>>
        /\ Candidates[1].content.parts # <<>>
        /\ Candidates[1].content.parts[1].tag = "Text"
        /\ last.result.text = Candidates[1].content.parts[1].text
        /\ Accumulating =>
              self.contents = SentContents \o
                  <<[parts |-> <<[tag |-> "Text", text |-> last.result.text]>>,
                    role |-> <<"model">>]>>

\* an accumulating send answered with two candidates of different text
C20_Witness ==
    /\ IsSend /\ Accumulating /\ last.result.kind = "Ok"
    /\ Len(Candidates) = 2
    /\ Candidates[2].content.parts[1] # Candidates[1].content.parts[1]
    /\ Len(self.contents) = Len(last.pre.contents) + 2

Called(op) == calc.op = op /\ calc.done

\* C13: LanguageModel::from is total and renders back to the string it was given;
\* a known identifier rendered with to_string converts back to itself.
C13_CatalogRoundTrip ==
    /\ Called("from") =>
          /\ calc.model.variant \in
                {"Gemini1_0Pro", "Gemini1_5Pro", "Gemini1_5Flash", "Gemini2_0FlashExp", "Custom"}
          /\ calc.text = calc.input
    /\ (Called("to_string") /\ calc.input.variant # "Custom") => calc.model = calc.input

\* the serde name of a known model is no path of the catalog: it falls back to Custom
C13_Witness ==
    /\ Called("from")
    /\ calc.input = "gemini-1.5-flash"
    /\ calc.model = [variant |-> "Custom", name |-> "gemini-1.5-flash"]

\* C14: a value of FinishReason, HarmProbability or BlockReason that is serialized
\* and deserialized again is the same value.
C14_EnumRoundTrip ==
    Called("enum") => calc.decoded = [kind |-> "Ok", value |-> calc.input.variant]

\* a token that two of the enums share decodes within its own enum
C14_Witness ==
    /\ Called("enum")
    /\ calc.input = [enum |-> "BlockReason", variant |-> "Safety"]
    /\ calc.token = "SAFETY"
    /\ calc.decoded.kind = "Ok"

ListedPage ==
    /\ Called("get_models")
    /\ calc.input.outcome.kind = "response"
    /\ calc.input.outcome.success
    /\ calc.input.outcome.body.readable
    /\ calc.input.outcome.body.page # <<>>

\* C15: get_models issues one GET to the model-list endpoint with the key as query
\* parameter; a successful status with a body that parses returns the models of that
\* page in order, whether or not the page names a next one; a non-success status
\* returns an error.
C15_OnePageListed ==
    Called("get_models") =>
        /\ calc.requests =
              <<[method |-> "GET",
                 url |-> "https://generativelanguage.googleapis.com/v1beta/models?key="
                         \o calc.input.key]>>
        /\ ListedPage =>
              calc.result = [kind |-> "Ok", models |-> calc.input.outcome.body.page[1].models]
        /\ (calc.input.outcome.kind = "response" /\ ~calc.input.outcome.success) =>
              calc.result.kind = "Err"

\* a page of two models that names a next page
C15_Witness ==
    /\ ListedPage
    /\ calc.input.outcome.body.page[1].next_page_token # <<>>
    /\ Len(calc.input.outcome.body.page[1].models) = 2
    /\ calc.result.kind = "Ok" /\ Len(calc.result.models) = 2
    /\ Len(calc.requests) = 1

\* the body of tests::convert_to_json: one user text turn, the default configuration,
\* no system instruction
DefaultTextBody ==
    /\ Called("to_string_body")
    /\ Len(calc.input.contents) = 1
    /\ calc.input.contents[1].role = <<"user">>
    /\ calc.input.generation_config =
          <<[response_mime_type |-> <<"text/plain">>, max_output_tokens |-> <<8192>>,
             temperature |-> <<"1.0">>, top_p |-> <<"0.95">>, top_k |-> <<64>>]>>
    /\ calc.input.system_instruction = <<>>

\* C16: that body serializes to an object with the two members contents and
\* generationConfig, in this order: contents holds the turn as {parts:[{text}],
\* role:"user"}, generationConfig the five options with their default values; there
\* is no systemInstruction member and no null.
C16_DefaultBodyJson ==
    DefaultTextBody =>
        calc.json =
            JsonObject(<<
                Member("contents", JsonArray(<<
                    JsonObject(<<
                        Member("parts", JsonArray(<<
                            JsonObject(<<Member("text",
                                JsonString(calc.input.contents[1].parts[1].text))>>)>>)),
                        Member("role", JsonString("user"))>>)>>)),
                Member("generationConfig", JsonObject(<<
                    Member("responseMimeType", JsonString("text/plain")),
                    Member("maxOutputTokens", JsonNumber("8192")),
                    Member("temperature", JsonNumber("1.0")),
                    Member("topP", JsonNumber("0.95")),
                    Member("topK", JsonNumber("64"))>>))>>)

\* the body of the test, with its text
C16_Witness ==
    /\ DefaultTextBody
    /\ calc.input.contents[1].parts[1].text = "Hello, world!"
    /\ Len(calc.json.members) = 2

OtherClient == IF client = "async" THEN "blocking" ELSE "async"
OtherImageSend ==
    send_image_message(OtherClient, last.pre, last.input.image, last.input.text, last.outcome)

\* C22: for the same session, the same arguments and the same outcomes of the image
\* source and of the POST, send_image_message of the blocking client and of the async
\* client send the same requests, end with the same kind of result (Ok, returned
\* error, abort) and leave the same history.
C22_BlockingEqualsAsync ==
    last.op = "send_image_message" =>
        /\ OtherImageSend.requests = last.requests
        /\ OtherImageSend.result.kind = last.result.kind
        /\ OtherImageSend.self.contents = self.contents

\* the deprecated operation that send_simple_message supersedes in the mode of the
\* session, called on the same session with the same message and the same outcome
Superseded ==
    IF last.pre.conversation THEN chat_conversation(last.pre, last.input, last.outcome)
    ELSE chat_once(last.pre, last.input, last.outcome)

\* C23: send_simple_message sends the same request, returns the same text (or fails
\* alike) and leaves the same history as chat_once when the conversation flag is
\* unset, and as chat_conversation when it is set.
C23_SupersedesDeprecated ==
    (client = "blocking" /\ last.op = "send_simple_message") =>
        /\ Superseded.requests = last.requests
        /\ Superseded.result.kind = last.result.kind
        /\ last.result.kind = "Ok" => Superseded.result.text = last.result.text
        /\ Superseded.self.contents = self.contents

MemberKeys(object) == {object.members[i].key : i \in 1..Len(object.members)}
HasNull(object) == \E i \in 1..Len(object.members) : object.members[i].value.json = "null"

\* the wire names of the optional fields that are None in the value serialized
AbsentKeys ==
    LET v == calc.input.value
    IN  CASE calc.input.type = "Error" ->
                {k \in {"status", "details"} :
                    IF k = "status" THEN v.status = <<>> ELSE v.details = <<>>}
          [] calc.input.type = "Detail" ->
                {k \in {"reason", "domain", "metadata"} :
                    CASE k = "reason" -> v.reason = <<>>
                      [] k = "domain" -> v.domain = <<>>
                      [] k = "metadata" -> v.metadata = <<>>}
          [] calc.input.type = "UsageMetadata" ->
                {k \in {"cachedContentTokenCount"} : v.cached_content_token_count = <<>>}

\* C24: a value of Error, Detail or UsageMetadata serializes to an object that has
\* no member for an optional field that is None, and no null member.
C24_AbsentFieldsOmitted ==
    Called("to_string_schema") =>
        /\ MemberKeys(calc.json) \cap AbsentKeys = {}
        /\ ~HasNull(calc.json)

\* the response envelope holds a finishReason token that FinishReason does not name
OutsideVocabulary ==
    /\ ParsedResponse
    /\ \E i \in 1..Len(Candidates) :
          /\ Candidates[i].finish_reason # <<>>
          /\ Candidates[i].finish_reason[1] \notin
                {FinishReasonToken(v) : v \in FinishReasonVariants}

\* C25: a success-status response with a finishReason token outside the vocabulary
\* makes the send return a deserialization error: no text is returned and no model
\* turn is appended (the history is what it was when the request was built).
C25_UnknownTokenIsError ==
    OutsideVocabulary =>
        /\ last.result.kind = "Err" /\ last.result.type = "serde_json"
        /\ self.contents = IF Accumulating THEN SentContents ELSE last.pre.contents

C25_Witness ==
    /\ OutsideVocabulary /\ Accumulating /\ last.op = "send_simple_message"
    /\ Candidates[1].finish_reason = <<"IMAGE_SAFETY">>
    /\ Candidates[1].content.parts[1].tag = "Text"
    /\ last.result.kind = "Err"

\* the body that came with a non-success status cannot be read, or holds no error envelope
ErrorBodyUnusable ==
    /\ NonSuccess
    /\ ~last.outcome.body.readable \/ last.outcome.body.json.error = <<>>

\* C27: in accumulating mode, when the body of a non-success response cannot be read
\* or parsed, the history equals the history before the call and the call returns
\* the read or parse error, not a remote message.
C27_RollBackBeforeErrorBody ==
    (Accumulating /\ ErrorBodyUnusable) =>
        /\ self.contents = last.pre.contents
        /\ last.result.kind = "Err"
        /\ last.result.type = IF last.outcome.body.readable THEN "serde_json" ELSE "reqwest"

C27_Witness ==
    /\ Accumulating /\ ErrorBodyUnusable /\ ~last.outcome.body.readable
    /\ last.pre.contents # <<>>
    /\ Len(SentContents) = Len(last.pre.contents) + 1
    /\ self.contents = last.pre.contents
    /\ last.result.type = "reqwest"

\* C28: a send leaves key, model, options, system_instruction, conversation and url
\* of the session as they were before the call; only the history may differ.
C28_SendKeepsConfiguration ==
    IsSend =>
        /\ self.key = last.pre.key
        /\ self.model = last.pre.model
        /\ self.options = last.pre.options
        /\ self.system_instruction = last.pre.system_instruction
        /\ self.conversation = last.pre.conversation
        /\ self.url = last.pre.url

C28_Witness ==
    /\ IsSend /\ Accumulating /\ last.result.kind = "Ok"
    /\ self.system_instruction # <<>>
    /\ self.options # GenerationConfigDefault
    /\ self.contents # last.pre.contents
    /\ self.url = last.pre.url /\ self.key = last.pre.key

\* C29: new and new_default_model yield a stateless session, rebuild an accumulating
\* one, start_chat leaves the session accumulating, and no method call takes an
\* accumulating session back to stateless.
C29_ModeIsMonotonic ==
    /\ last.op \in {"new", "new_default_model"} => ~self.conversation
    /\ last.op \in {"rebuild", "start_chat"} => self.conversation
    /\ last.pre.conversation => self.conversation

C29_Witness ==
    /\ last.op = "send_message" /\ last.pre.conversation
    /\ last.result.kind = "Err" /\ last.requests # <<>>
    /\ self.conversation

\* C30: start_chat(h) and rebuild(key, model, h, options) leave the session with
\* exactly h as history, whatever it held before, so that the first request built
\* afterwards carries h followed by the new turn; rebuild yields a session in
\* accumulating mode with the given key, model and options and no system instruction.
C30_HistoryReplaced ==
    /\ last.op = "start_chat" =>
          /\ self.contents = last.input /\ self.conversation
          /\ started.history = last.input
    /\ last.op = "rebuild" =>
          /\ self.contents = last.input.contents /\ self.conversation
          /\ started.history = last.input.contents
          /\ self.key = last.input.key /\ self.model = last.input.model
          /\ self.options = last.input.options
          /\ self.system_instruction = <<>>
    /\ (Sent /\ last.first) =>
          /\ last.pre.conversation
          /\ SentContents = started.history \o <<NewTurn>>

\* start_chat on a stateless session that holds the model turn of an earlier send
C30_Witness ==
    /\ last.op = "start_chat"
    /\ ~last.pre.conversation /\ last.pre.contents # <<>>
    /\ last.input # <<>> /\ last.input # last.pre.contents
    /\ self.contents = last.input

\* C26: with two sessions in one program, one of them possibly a clone of the
\* other, each session's history after any interleaving of sends is the history
\* it has when the same calls are made on it alone, and each call sends the same
\* requests and returns the same result.
C26_SessionsIndependent ==
    calc.op = "pair" =>
        /\ \A who \in Addresses :
              calc.sessions[who] # <<>> =>
                  View(calc.heap, calc.sessions[who][1]) = calc.alone[who][1]
        /\ calc.requests = calc.expected.requests
        /\ calc.result = calc.expected.result

\* both the original and its clone have sent since the clone was made
C26_Witness ==
    /\ calc.op = "pair" /\ calc.cloned
    /\ calc.sent = {"first", "second"} /\ calc.sender = "first"
    /\ calc.result.kind = "Ok"
    /\ calc.alone.first[1].conversation
    /\ calc.heap["first"] # calc.heap["second"]
    /\ calc.heap["second"] # <<>>

====
